---------------------------- MODULE Spec2Model ----------------------------
(***************************************************************************)
(* Model of watchdog_host: the monthly bandwidth monitor                   *)
(* (src/src/watchdog_host/bandwidth.py) and the notifier it calls          *)
(* (src/src/watchdog_host/notifier.py).                                    *)
(*                                                                         *)
(* Byte counts are scaled: one "gigabyte" is GiB bytes (1024**3 in the     *)
(* source).  Time is counted in check intervals.  Configuration is taken   *)
(* to be well formed (every key a channel reads is present).  The disk is  *)
(* taken to accept writes: save_data's except branch is not modelled,      *)
(* only a kill of the process between open() and the end of the write.     *)
(*                                                                         *)
(* Four specifications share the variables and the actions of the loop:    *)
(*   Spec   the monitor from its first load, with kills and restarts;      *)
(*   NSpec  one WatchdogNotifier object called at any time, with           *)
(*          transports that succeed, fail or never answer;                 *)
(*   LSpec  the monitor started on any state file it may find;             *)
(*   ISpec  the monitor from the first line of main(), with the network    *)
(*          interfaces as the OS reports them.                             *)
(***************************************************************************)
EXTENDS Integers, Sequences, FiniteSets, TLC

\* ---------------------------------------------------------------- bounds
MaxTicks == 3        \* samples taken over the whole behaviour
MaxSample == 2       \* largest cumulative counter value the sampler returns
MaxRestarts == 1     \* process (re)starts after the first one
MaxDispatch == 3     \* send_alert calls made on one notifier (NSpec)
MaxLoadTicks == 2    \* samples taken after a start from a given file (LSpec)
MaxIfaceTicks == 2   \* samples taken from the interfaces (ISpec)
MaxCounter == 1      \* largest value of one interface's byte counter (ISpec)
MaxLegacy == 5       \* largest legacy used_gb, in 1/FracDen gigabytes (LSpec)
MaxWait == 2         \* check intervals that pass on one notifier (NSpec)
GiB == 2             \* bytes per gigabyte, scaled (source: 1024 ** 3)
bandwidth_max_gb == 1   \* config bandwidth.bandwidth_max, in gigabytes
alarm_percent == 75     \* config bandwidth.alarm_rate, in percent
Cooldown == 2        \* config notify.<channel>.cooldown, in check intervals
StartTime == 5       \* time.time() at the first start, in check intervals

Samples == 0..MaxSample
StartMonths == {12}
Channels == {"email", "dingtalk", "wecom"}
EnabledChoices == {{}, {"wecom"}, {"email", "wecom"}}

VARIABLES
    pc,                \* position of the process in main()
    data,              \* the in-memory record (dict `data`)
    file,              \* the state file on disk
    fopen,             \* save_data has opened (truncated) the file
    now_month,         \* datetime.now(timezone.utc).month
    clock,             \* time.time()
    cooldown_tracker,  \* WatchdogNotifier.cooldown_tracker
    notify_enabled,    \* channels with notify.<channel>.enabled
    shutdown_enabled,  \* config bandwidth.shutdown
    \* ---- history variables (not read by the program)
    hist,              \* every sample taken: <<month, total bytes>>
    events,            \* side effects of the current tick, in order
    pre,               \* the record as it was when the current tick began
    loaded,            \* the record load_data returned at the last start
    ref,               \* record of a run that is never stopped
    ref_done,          \* that run has left its loop
    ref_ticks,         \* number of ticks that run has made
    dirty,             \* some process was killed in the middle of a tick
    restarts,          \* number of process starts after the first
    warn_log,          \* months of the Warn dispatches of this process
    tick_end,          \* record at the end of the last completed tick
    tick_end2,         \* record at the end of the tick before that
    nlog,              \* the send_alert calls made, in order (NSpec)
    nic,               \* the network interfaces as the OS reports them
    base               \* each interface's counter at the month's baseline sample

vars == <<pc, data, file, fopen, now_month, clock, cooldown_tracker,
          notify_enabled, shutdown_enabled, hist, events, pre, loaded,
          ref, ref_done, ref_ticks, dirty, restarts, warn_log, tick_end,
          tick_end2, nlog, nic, base>>

\* ------------------------------------------------------- values and JSON
None == <<>>
Some(n) == <<n>>

Keys == {"month", "used_bytes", "last_total_bytes", "alert_sent"}
FracDen == 4    \* a legacy used_gb value v stands for v / FracDen gigabytes

JNum(n) == [t |-> "num", v |-> n]
JNull == [t |-> "null", v |-> 0]
JBool(b) == [t |-> IF b THEN "true" ELSE "false", v |-> 0]

\* json.dump of one value of the record
json_encode(k, x) ==
    CASE k = "alert_sent" -> JBool(x)
      [] k = "last_total_bytes" -> IF x = None THEN JNull ELSE JNum(x[1])
      [] OTHER -> JNum(x)

\* json.load that gives back no baseline: last_total_bytes is always None
json_decode_nobase(k, j) ==
    CASE j.t = "null" -> None
      [] j.t = "true" -> TRUE
      [] j.t = "false" -> FALSE
      [] OTHER -> IF k = "last_total_bytes" THEN None ELSE j.v

\* json.load of one value
json_decode(k, j) ==
    CASE j.t = "null" -> None
      [] j.t = "true" -> TRUE
      [] j.t = "false" -> FALSE
      [] OTHER -> IF k = "last_total_bytes" THEN Some(j.v) ELSE j.v

NoFile == [st |-> "absent", obj |-> [k \in {} |-> JNull]]
Truncated == [st |-> "partial", obj |-> [k \in {} |-> JNull]]

FreshRecord(m) ==
    [month |-> m, used_bytes |-> 0, last_total_bytes |-> None, alert_sent |-> FALSE]

\* json.dump(data, f): the file holds every key of the record
json_dump(d) == [st |-> "json", obj |-> [k \in DOMAIN d |-> json_encode(k, d[k])]]

\* the body of load_data's try block: json.load and the legacy upgrade
json_load(f) ==
    LET o == f.obj
        ks == DOMAIN o
    IN  IF "used_gb" \in ks /\ "used_bytes" \notin ks
        THEN [k \in (ks \ {"used_gb"}) \cup {"used_bytes"} |->
                 IF k = "used_bytes"
                 THEN (o["used_gb"].v * GiB) \div FracDen
                 ELSE json_decode(k, o[k])]
        ELSE [k \in ks |-> json_decode(k, o[k])]

\* a file whose JSON text is a list or a string: json.load gives a list or
\* a str, on which the `in` tests of lines 54 are false
NonObject(kind) == [nodict |-> kind]

\* load_data: a missing file, one json.load rejects, or one whose value does
\* not support `in` (a number, true, false, null) gives a fresh record; any
\* other value json.load gives is returned as it is
load_data(f, m) ==
    CASE f.st = "json" -> json_load(f)
      [] f.st \in {"list", "string"} -> NonObject(f.st)
      [] OTHER -> FreshRecord(m)

\* d[k] = v
Put(d, k, v) == [x \in DOMAIN d \cup {k} |-> IF x = k THEN v ELSE d[x]]

\* ------------------------------------------------------------ accounting
bandwidth_max_bytes == bandwidth_max_gb * GiB
alarm_bytes == (bandwidth_max_gb * alarm_percent * GiB) \div 100

NextMonth(m) == (m % 12) + 1

\* line 150: data.get("month") != current_month; .get gives None, which
\* differs from every month, for a record without the key
IsRollover(d, m) == IF "month" \in DOMAIN d THEN d.month # m ELSE TRUE

\* the exception one pass of the loop raises on the record d, if any: .get
\* on a value that is no dict (line 150), or a subscript with a key the
\* dict does not have (lines 161, 164, 168)
TickError(d, m) ==
    IF "nodict" \in DOMAIN d THEN "AttributeError"
    ELSE IF IsRollover(d, m) THEN "none"
    ELSE IF "last_total_bytes" \notin DOMAIN d THEN "KeyError"
    ELSE IF "used_bytes" \notin DOMAIN d THEN "KeyError"
    ELSE "none"

\* Account without the `is not None` guard: the first sample counts from 0
Account_first(d, s, m) ==
    IF IsRollover(d, m)
    THEN [d EXCEPT !.month = m, !.used_bytes = 0, !.alert_sent = FALSE,
                   !.last_total_bytes = Some(s)]
    ELSE LET delta == IF d.last_total_bytes # None
                      THEN s - d.last_total_bytes[1] ELSE s
             used == IF delta > 0 THEN d.used_bytes + delta ELSE d.used_bytes
         IN  [d EXCEPT !.used_bytes = used, !.last_total_bytes = Some(s)]

\* Account whose rollover branch forgets to clear alert_sent
Account_keepalert(d, s, m) ==
    IF IsRollover(d, m)
    THEN [d EXCEPT !.month = m, !.used_bytes = 0,
                   !.last_total_bytes = Some(s)]
    ELSE LET delta == IF d.last_total_bytes # None
                      THEN s - d.last_total_bytes[1] ELSE 0
             used == IF delta > 0 THEN d.used_bytes + delta ELSE d.used_bytes
         IN  [d EXCEPT !.used_bytes = used, !.last_total_bytes = Some(s)]

\* Account without the `delta_bytes > 0` guard
Account_signed(d, s, m) ==
    IF IsRollover(d, m)
    THEN [d EXCEPT !.month = m, !.used_bytes = 0, !.alert_sent = FALSE,
                   !.last_total_bytes = Some(s)]
    ELSE LET delta == IF d.last_total_bytes # None
                      THEN s - d.last_total_bytes[1] ELSE 0
         IN  [d EXCEPT !.used_bytes = d.used_bytes + delta,
                       !.last_total_bytes = Some(s)]

\* one pass of lines 150-166: the record after sampling s in month m
Account(d, s, m) ==
    IF IsRollover(d, m)
    THEN Put(Put(Put(Put(d, "month", m), "used_bytes", 0),
                 "alert_sent", FALSE), "last_total_bytes", Some(s))
    ELSE LET delta == IF d.last_total_bytes # None
                      THEN s - d.last_total_bytes[1] ELSE 0
             used == IF delta > 0 THEN d.used_bytes + delta ELSE d.used_bytes
         IN  [d EXCEPT !.used_bytes = used, !.last_total_bytes = Some(s)]

\* the warning test without the alert_sent flag
WarnCond_noflag(d) == d.used_bytes >= alarm_bytes

\* line 174
\* a warning test that leaves out the threshold
WarnCond_nothreshold(d) == ~d.alert_sent

\* line 174; data.get("alert_sent") of a record without the key is None
WarnCond(d) ==
    /\ d.used_bytes >= alarm_bytes
    /\ IF "alert_sent" \in DOMAIN d THEN ~d.alert_sent ELSE TRUE

\* the exceeded test made to fire once only
ExceedCond_once(d) == d.used_bytes >= bandwidth_max_bytes /\ ~d.alert_sent

\* line 188
ExceedCond(d) == d.used_bytes >= bandwidth_max_bytes

\* -------------------------------------------------------------- notifier
\* WatchdogNotifier._can_send
_can_send(ch, tracker, now) ==
    ch \in notify_enabled /\ now - tracker[ch] >= Cooldown

\* an update of the cooldown that stamps every channel
_update_cooldown_all(tracker, ch, now) == [c \in Channels |-> now]

\* WatchdogNotifier._update_cooldown
_update_cooldown(tracker, ch, now) == [tracker EXCEPT ![ch] = now]

\* what a transport does when it is called: it succeeds, it fails (network
\* error, authentication error, malformed response), or the peer stays
\* silent for ever
Responses == {"ok", "fail", "silent"}

\* requests.post(..., timeout=10) in send_dingtalk and send_wecom;
\* smtplib.SMTP(server, port) in send_email is given no timeout
HasTimeout(ch) == ch \in {"dingtalk", "wecom"}

NotSent(tracker) ==
    [res |-> FALSE, called |-> FALSE, tracker |-> tracker,
     raised |-> FALSE, blocked |-> FALSE]

\* a channel whose except clause lets the transport error through
send_channel_raise(ch, tracker, now, resp) ==
    IF ch \notin notify_enabled \/ ~_can_send(ch, tracker, now)
    THEN NotSent(tracker)
    ELSE CASE resp = "ok" ->
                [res |-> TRUE, called |-> TRUE,
                 tracker |-> _update_cooldown(tracker, ch, now),
                 raised |-> FALSE, blocked |-> FALSE]
           [] resp = "silent" /\ ~HasTimeout(ch) ->
                [res |-> FALSE, called |-> TRUE, tracker |-> tracker,
                 raised |-> FALSE, blocked |-> TRUE]
           [] OTHER ->
                [res |-> FALSE, called |-> TRUE, tracker |-> tracker,
                 raised |-> TRUE, blocked |-> FALSE]

\* a channel that starts its cooldown on every attempt
send_channel_stamp(ch, tracker, now, resp) ==
    IF ch \notin notify_enabled \/ ~_can_send(ch, tracker, now)
    THEN NotSent(tracker)
    ELSE CASE resp = "ok" ->
                [res |-> TRUE, called |-> TRUE,
                 tracker |-> _update_cooldown(tracker, ch, now),
                 raised |-> FALSE, blocked |-> FALSE]
           [] resp = "silent" /\ ~HasTimeout(ch) ->
                [res |-> FALSE, called |-> TRUE, tracker |-> tracker,
                 raised |-> FALSE, blocked |-> TRUE]
           [] OTHER ->
                [res |-> FALSE, called |-> TRUE,
                 tracker |-> _update_cooldown(tracker, ch, now),
                 raised |-> FALSE, blocked |-> FALSE]

\* send_email / send_dingtalk / send_wecom.  The enabled and cooldown tests
\* come first; the transport runs inside try/except, so a failure, and a
\* timeout where the call has one, gives False; success stamps the cooldown.
\* called: the transport was called; blocked: the call never returns.
send_channel(ch, tracker, now, resp) ==
    IF ch \notin notify_enabled \/ ~_can_send(ch, tracker, now)
    THEN NotSent(tracker)
    ELSE CASE resp = "ok" ->
                [res |-> TRUE, called |-> TRUE,
                 tracker |-> _update_cooldown(tracker, ch, now),
                 raised |-> FALSE, blocked |-> FALSE]
           [] resp = "silent" /\ ~HasTimeout(ch) ->
                [res |-> FALSE, called |-> TRUE, tracker |-> tracker,
                 raised |-> FALSE, blocked |-> TRUE]
           [] OTHER ->
                [res |-> FALSE, called |-> TRUE, tracker |-> tracker,
                 raised |-> FALSE, blocked |-> FALSE]

\* the order in which send_alert visits the channels (lines 167-174)
ChannelOrder == <<"email", "dingtalk", "wecom">>

AlertStart(tracker) ==
    [tracker |-> tracker, results |-> <<>>, tried |-> {}, calls |-> {},
     oks |-> {}, raised |-> FALSE, blocked |-> FALSE]

\* a visit that gives up on the remaining channels after a False result
AlertStep_stop(st, ch, now, out) ==
    IF st.raised \/ st.blocked \/ ch \notin notify_enabled
       \/ (\E i \in 1..Len(st.results) : ~st.results[i])
    THEN st
    ELSE LET r == send_channel(ch, st.tracker, now, out[ch])
         IN  [tracker |-> r.tracker,
              results |-> Append(st.results, r.res),
              tried |-> st.tried \cup {ch},
              calls |-> st.calls \cup (IF r.called THEN {ch} ELSE {}),
              oks |-> st.oks \cup (IF r.res THEN {ch} ELSE {}),
              raised |-> r.raised, blocked |-> r.blocked]

\* one `if enabled: results.append(self.send_x(message))` of send_alert; a
\* call that raised or never returned leaves the later ones unreached
AlertStep(st, ch, now, out) ==
    IF st.raised \/ st.blocked \/ ch \notin notify_enabled
    THEN st
    ELSE LET r == send_channel(ch, st.tracker, now, out[ch])
         IN  [tracker |-> r.tracker,
              results |-> Append(st.results, r.res),
              tried |-> st.tried \cup {ch},
              calls |-> st.calls \cup (IF r.called THEN {ch} ELSE {}),
              oks |-> st.oks \cup (IF r.res THEN {ch} ELSE {}),
              raised |-> r.raised, blocked |-> r.blocked]

\* what send_alert hands back: it has no return statement
AlertReturn(any) == "None"

\* WatchdogNotifier.send_alert: any is any(results), which is only printed
send_alert(tracker, now, out) ==
    LET s1 == AlertStep(AlertStart(tracker), ChannelOrder[1], now, out)
        s2 == AlertStep(s1, ChannelOrder[2], now, out)
        s3 == AlertStep(s2, ChannelOrder[3], now, out)
        any == \E i \in 1..Len(s3.results) : s3.results[i]
    IN  [tracker |-> s3.tracker, any |-> any, tried |-> s3.tried,
         calls |-> s3.calls, oks |-> s3.oks, raised |-> s3.raised, blocked |-> s3.blocked,
         ret |-> AlertReturn(any)]

\* in Spec every transport answers
Outcomes == [Channels -> {"ok", "fail"}]

\* ------------------------------------------------------------ interfaces
Interfaces == {"eth0", "eth1"}

\* get_total_bytes: the sum over the configured interfaces that are present
RECURSIVE SumOver(_, _)
SumOver(f, S) ==
    IF S = {} THEN 0
    ELSE LET i == CHOOSE x \in S : TRUE IN f[i] + SumOver(f, S \ {i})

get_total_bytes(n) == SumOver(n.ctr, Interfaces \cap n.up)

AllUp == [up |-> Interfaces, ctr |-> [i \in Interfaces |-> 0]]

\* ---------------------------------------------------------------- ghosts
\* the whole tick of the run that is never stopped
RefTick(d, s, m) ==
    LET a == Account(d, s, m)
    IN  IF IsRollover(d, m) THEN a
        ELSE IF WarnCond(a) THEN [a EXCEPT !.alert_sent = TRUE] ELSE a

RefExceeds(d, s, m) == ~IsRollover(d, m) /\ ExceedCond(Account(d, s, m))

Ev(e, ok, calls) == [e |-> e, ok |-> ok, calls |-> calls]

\* --------------------------------------------------------------- actions
\* main(), lines 104-143, on a machine with no state file: the notifier is
\* built and load_data returns the fresh record
Init ==
    /\ pc = "loop"
    /\ now_month \in StartMonths
    /\ file = NoFile
    /\ data = load_data(file, now_month)
    /\ fopen = FALSE
    /\ clock = StartTime
    /\ cooldown_tracker = [ch \in Channels |-> 0]
    /\ notify_enabled \in EnabledChoices
    /\ shutdown_enabled \in BOOLEAN
    /\ hist = <<>>
    /\ events = <<>>
    /\ pre = data
    /\ loaded = data
    /\ ref = data
    /\ ref_done = FALSE
    /\ ref_ticks = 0
    /\ dirty = FALSE
    /\ restarts = 0
    /\ warn_log = <<>>
    /\ tick_end = data
    /\ tick_end2 = data
    /\ nlog = <<>>
    /\ nic = AllUp
    /\ base = AllUp.ctr

\* lines 145-166: sample, month check, accounting
\* one pass of the loop up to the accounting, reading month m and the
\* total s; n bounds the number of samples; a pass that raises ends the
\* process
Pass(n, m, s) ==
    /\ pc = "loop"
    /\ Len(hist) < n
    /\ now_month' = m
    /\ hist' = Append(hist, <<m, s>>)
    /\ IF TickError(data, m) # "none"
       THEN /\ pc' = "crashed"
            /\ UNCHANGED <<data, ref, ref_done, ref_ticks>>
       ELSE /\ data' = Account(data, s, m)
            /\ pc' = IF IsRollover(data, m) THEN "roll_save" ELSE "alert"
            /\ ref' = IF ref_done THEN ref ELSE RefTick(ref, s, m)
            /\ ref_done' = (ref_done \/ RefExceeds(ref, s, m))
            /\ ref_ticks' = IF ref_done THEN ref_ticks ELSE ref_ticks + 1
    /\ pre' = data
    /\ events' = <<>>
    /\ UNCHANGED <<file, fopen, clock, cooldown_tracker, notify_enabled,
                   shutdown_enabled, loaded, dirty, restarts, warn_log,
                   tick_end, tick_end2, nlog>>

\* a pass whose sample is any total the interfaces may show
Tick ==
    /\ \E m \in {now_month, NextMonth(now_month)}, s \in Samples :
          Pass(MaxTicks, m, s)
    /\ nic' = nic
    /\ base' = base

\* lines 173-188: the warning, then the choice of the tick's ending
\* the exceeded branch without its save_data call
AfterAlert_nosave(d) == IF ExceedCond(d) THEN "exc_notify" ELSE "save"

AfterAlert(d) == IF ExceedCond(d) THEN "exc_save" ELSE "save"

AlertCheck ==
    /\ pc = "alert"
    /\ \/ /\ WarnCond(data)
          /\ \E out \in Outcomes :
                LET r == send_alert(cooldown_tracker, clock, out)
                IN  /\ cooldown_tracker' = r.tracker
                    /\ events' = Append(events, Ev("warn", r.any, r.calls))
                    /\ data' = IF r.raised THEN data
                               ELSE Put(data, "alert_sent", TRUE)
                    /\ pc' = IF r.raised THEN "crashed" ELSE AfterAlert(data')
          /\ warn_log' = Append(warn_log, now_month)
       \/ /\ ~WarnCond(data)
          /\ pc' = AfterAlert(data)
          /\ UNCHANGED <<data, cooldown_tracker, events, warn_log>>
    /\ UNCHANGED <<file, fopen, now_month, clock, notify_enabled,
                   shutdown_enabled, hist, pre, loaded, ref, ref_done, ref_ticks,
                   dirty, restarts, tick_end, tick_end2, nlog, nic, base>>

\* save_data, line 73: open(data_file, "w") empties the file
SaveOpen ==
    /\ pc \in {"roll_save", "save", "exc_save"}
    /\ ~fopen
    /\ file' = Truncated
    /\ fopen' = TRUE
    /\ UNCHANGED <<pc, data, now_month, clock, cooldown_tracker,
                   notify_enabled, shutdown_enabled, hist, events, pre,
                   loaded, ref, ref_done, ref_ticks, dirty, restarts, warn_log,
                   tick_end, tick_end2,
                   nlog, nic, base>>

\* where main() goes after each of its three save_data calls
AfterSave(p) == IF p = "exc_save" THEN "exc_notify" ELSE "loop"

\* save_data, lines 74-75, and the time.sleep that follows it
SaveWrite ==
    /\ pc \in {"roll_save", "save", "exc_save"}
    /\ fopen
    /\ file' = json_dump(data)
    /\ fopen' = FALSE
    /\ events' = Append(events, Ev("persist", TRUE, {}))
    /\ pc' = AfterSave(pc)
    /\ clock' = IF pc = "exc_save" THEN clock ELSE clock + 1
    /\ tick_end' = data
    /\ tick_end2' = tick_end
    /\ UNCHANGED <<data, now_month, cooldown_tracker, notify_enabled,
                   shutdown_enabled, hist, pre, loaded, ref, ref_done, ref_ticks,
                   dirty, restarts, warn_log,
                   nlog, nic, base>>

\* line 201: the exceeded notification
AfterNotify == IF shutdown_enabled THEN "exc_shutdown" ELSE "done"

ExceededNotify ==
    /\ pc = "exc_notify"
    /\ \E out \in Outcomes :
          LET r == send_alert(cooldown_tracker, clock, out)
          IN  /\ cooldown_tracker' = r.tracker
              /\ events' = Append(events, Ev("exceeded", r.any, r.calls))
              /\ pc' = IF r.raised THEN "crashed" ELSE AfterNotify
    /\ UNCHANGED <<data, file, fopen, now_month, clock, notify_enabled,
                   shutdown_enabled, hist, pre, loaded, ref, ref_done, ref_ticks,
                   dirty, restarts, warn_log, tick_end, tick_end2, nlog, nic, base>>

\* lines 203-206: os.system("shutdown -h now"), whatever it returns, then break
\* the exceeded branch without its break
AfterShutdown_nobreak == "loop"

AfterShutdown == "done"

Shutdown ==
    /\ pc = "exc_shutdown"
    /\ \E ok \in BOOLEAN : events' = Append(events, Ev("shutdown", ok, {}))
    /\ pc' = AfterShutdown
    /\ UNCHANGED <<data, file, fopen, now_month, clock, cooldown_tracker,
                   notify_enabled, shutdown_enabled, hist, pre, loaded, ref,
                   ref_done, ref_ticks, dirty, restarts, warn_log, tick_end, tick_end2,
                   nlog, nic, base>>

\* the process ends (killed at any point, or after its break) and the
\* service starts it again: main(), lines 104-143, builds a new notifier
\* and loads the record from the state file
Restart ==
    /\ restarts < MaxRestarts
    /\ data' = load_data(file, now_month)
    /\ cooldown_tracker' = [ch \in Channels |-> 0]
    /\ loaded' = data'
    /\ pc' = "loop"
    /\ restarts' = restarts + 1
    /\ dirty' = (dirty \/ pc \notin {"loop", "done"})
    /\ fopen' = FALSE
    /\ events' = <<>>
    /\ warn_log' = <<>>
    /\ UNCHANGED <<file, now_month, clock, notify_enabled, shutdown_enabled,
                   hist, pre, ref, ref_done, ref_ticks, tick_end, tick_end2,
                   nlog, nic, base>>

Next ==
    \/ Tick
    \/ AlertCheck
    \/ SaveOpen
    \/ SaveWrite
    \/ ExceededNotify
    \/ Shutdown
    \/ Restart

Spec == Init /\ [][Next]_vars

\* ------------------------------------------------- the notifier alone
\* One WatchdogNotifier object, called by any caller at any time: send_alert
\* calls and the passing of time, with every response of every transport.
\* the configurations explored: at most two of the three channels enabled
NEnabledChoices == {S \in SUBSET Channels : Cardinality(S) <= 2}
NOutcomes == [Channels -> Responses]

\* the parts of the monitor that the notifier does not touch
Idle ==
    /\ data = FreshRecord(12)
    /\ file = NoFile
    /\ fopen = FALSE
    /\ now_month = 12
    /\ shutdown_enabled = FALSE
    /\ hist = <<>>
    /\ events = <<>>
    /\ pre = data
    /\ loaded = data
    /\ ref = data
    /\ ref_done = FALSE
    /\ ref_ticks = 0
    /\ dirty = FALSE
    /\ restarts = 0
    /\ warn_log = <<>>
    /\ tick_end = data
    /\ tick_end2 = data
    /\ nic = AllUp
    /\ base = AllUp.ctr

\* WatchdogNotifier.__init__
NInit ==
    /\ pc = "notifier"
    /\ Idle
    /\ clock = StartTime
    /\ notify_enabled \in NEnabledChoices
    /\ cooldown_tracker = [ch \in Channels |-> 0]
    /\ nlog = <<>>

\* a transport's response matters only when the transport is called
Relevant(out, calls) == \A ch \in Channels \ calls : out[ch] = "ok"

\* one call of send_alert; a transport call that never returns leaves the
\* caller inside send_alert for ever
NSendAlert ==
    /\ pc = "notifier"
    /\ Len(nlog) < MaxDispatch
    /\ \E out \in NOutcomes :
          /\ LET r == send_alert(cooldown_tracker, clock, out)
             IN  /\ Relevant(out, r.calls)
                 /\ cooldown_tracker' = r.tracker
                 /\ nlog' = Append(nlog,
                        [t |-> clock, out |-> out, before |-> cooldown_tracker,
                         after |-> r.tracker, tried |-> r.tried,
                         calls |-> r.calls, oks |-> r.oks,
                         ret |-> IF r.blocked THEN "blocked"
                                 ELSE IF r.raised THEN "raised" ELSE r.ret])
                 /\ pc' = IF r.blocked THEN "blocked"
                          ELSE IF r.raised THEN "crashed" ELSE "notifier"
    /\ UNCHANGED <<data, file, fopen, now_month, clock, notify_enabled,
                   shutdown_enabled, hist, events, pre, loaded, ref, ref_done,
                   ref_ticks, dirty, restarts, warn_log, tick_end, tick_end2,
                   nic, base>>

\* time passes between two calls
NWait ==
    /\ pc = "notifier"
    /\ clock < StartTime + MaxWait
    /\ clock' = clock + 1
    /\ UNCHANGED <<pc, data, file, fopen, now_month, cooldown_tracker,
                   notify_enabled, shutdown_enabled, hist, events, pre, loaded,
                   ref, ref_done, ref_ticks, dirty, restarts, warn_log,
                   tick_end, tick_end2, nlog, nic, base>>

NNext ==
    \/ NSendAlert
    \/ NWait

NSpec == NInit /\ [][NNext]_vars

\* ------------------------------------ a start with the interfaces given
\* `data` before load_data has bound it
Unbound == [nodict |-> "unbound"]

\* a record a previous run left in the state file
OldRecord ==
    [month |-> 12, used_bytes |-> 1, last_total_bytes |-> Some(0),
     alert_sent |-> TRUE]

\* what the OS may report: any of the configured interfaces present
NicStates ==
    [up : SUBSET Interfaces, ctr : [Interfaces -> 0..MaxCounter]]

\* main() at its first line
IInit ==
    /\ pc = "boot"
    /\ now_month = 12
    /\ file \in {NoFile, json_dump(OldRecord)}
    /\ data = Unbound
    /\ fopen = FALSE
    /\ clock = StartTime
    /\ cooldown_tracker = [ch \in Channels |-> 0]
    /\ notify_enabled = {"wecom"}
    /\ shutdown_enabled = TRUE
    /\ hist = <<>>
    /\ events = <<>>
    /\ pre = data
    /\ loaded = data
    /\ ref = FreshRecord(now_month)
    /\ ref_done = FALSE
    /\ ref_ticks = 0
    /\ dirty = FALSE
    /\ restarts = 0
    /\ warn_log = <<>>
    /\ tick_end = data
    /\ tick_end2 = data
    /\ nlog = <<>>
    /\ nic \in {n \in NicStates : \A i \in Interfaces : n.ctr[i] = 0}
    /\ base = nic.ctr

\* a start that takes every configured interface to be present
missing_none(n) == {}

\* line 131: the configured interfaces the OS does not report
missing(n) == Interfaces \ n.up

\* main(), lines 129-136: the interface check, then load_data
Startup ==
    /\ pc = "boot"
    /\ IF missing(nic) # {}
       THEN /\ pc' = "exit"
            /\ UNCHANGED <<data, pre, loaded, tick_end, tick_end2>>
       ELSE /\ pc' = "loop"
            /\ data' = load_data(file, now_month)
            /\ pre' = data'
            /\ loaded' = data'
            /\ tick_end' = data'
            /\ tick_end2' = data'
    /\ UNCHANGED <<file, fopen, now_month, clock, cooldown_tracker,
                   notify_enabled, shutdown_enabled, hist, events, ref,
                   ref_done, ref_ticks, dirty, restarts, warn_log, nlog, nic, base>>

\* the pass stores its sample as the month's baseline: the rollover branch
\* (line 156), or the first sample after a start without one (line 161)
SetsBaseline(d, m) == IF IsRollover(d, m) THEN TRUE ELSE d.last_total_bytes = None

\* between two passes the counters grow and interfaces come and go
NicNext(n) ==
    {x \in NicStates : \A i \in Interfaces : x.ctr[i] >= n.ctr[i]}

\* a pass whose sample is read from the interfaces: psutil.net_io_counters
\* either raises, which nothing in main() catches, or gives the counters
\* that get_total_bytes adds up
ITick ==
    /\ pc = "loop"
    /\ Len(hist) < MaxIfaceTicks
    /\ \/ /\ pc' = "crashed"
          /\ UNCHANGED <<data, file, fopen, now_month, clock,
                         cooldown_tracker, notify_enabled, shutdown_enabled,
                         hist, events, pre, loaded, ref, ref_done, ref_ticks,
                         dirty, restarts, warn_log, tick_end, tick_end2,
                         nlog, nic, base>>
       \/ \E x \in NicNext(nic), m \in {now_month, NextMonth(now_month)} :
             /\ nic' = x
             /\ base' = IF SetsBaseline(data, m) THEN x.ctr ELSE base
             /\ Pass(MaxIfaceTicks, m, get_total_bytes(x))

INext ==
    \/ Startup
    \/ ITick
    \/ AlertCheck
    \/ SaveOpen
    \/ SaveWrite
    \/ ExceededNotify
    \/ Shutdown

ISpec == IInit /\ [][INext]_vars

\* ------------------------------------- a start from a given state file
\* the values a state file may hold for each key
FileValues(k) ==
    CASE k = "month" -> {JNum(11), JNum(12)}
      [] k = "used_bytes" -> {JNum(0), JNum(1)}
      [] k = "last_total_bytes" -> {JNull, JNum(1)}
      [] k = "alert_sent" -> {JBool(FALSE), JBool(TRUE)}
      [] OTHER -> {JNum(v) : v \in 0..MaxLegacy}

\* the JSON objects with any subset of the record's keys
FileObjects ==
    UNION {[ks -> UNION {FileValues(k) : k \in ks}] : ks \in SUBSET Keys}

\* an object of the older format: used_gb in place of used_bytes
LegacyObject ==
    [month |-> JNum(12), used_gb |-> JNum(FracDen \div 2),
     last_total_bytes |-> JNull, alert_sent |-> JBool(FALSE)]

\* the objects of the older format with any subset of the other keys
LegacyObjects ==
    UNION {[ks \cup {"used_gb"} -> UNION {FileValues(k) : k \in ks \cup {"used_gb"}}] :
              ks \in SUBSET (Keys \ {"used_bytes"})}

\* the state files main() may find: none, an empty or cut-off one, JSON
\* text that is a number, a list or a string, and JSON objects
StartFiles ==
    {[st |-> x, obj |-> NoFile.obj] :
        x \in {"absent", "partial", "number", "list", "string"}}
    \cup {[st |-> "json", obj |-> o] :
            o \in {x \in FileObjects \cup LegacyObjects :
                      \A k \in DOMAIN x : x[k] \in FileValues(k)}
                  \cup {LegacyObject}}

\* main() at its first line, with the state file it will find
LInit ==
    /\ pc = "boot"
    /\ now_month = 12
    /\ file \in StartFiles
    /\ data = Unbound
    /\ fopen = FALSE
    /\ clock = StartTime
    /\ cooldown_tracker = [ch \in Channels |-> 0]
    /\ notify_enabled = {"wecom"}
    /\ shutdown_enabled = TRUE
    /\ hist = <<>>
    /\ events = <<>>
    /\ pre = data
    /\ loaded = data
    /\ ref = FreshRecord(now_month)
    /\ ref_done = FALSE
    /\ ref_ticks = 0
    /\ dirty = FALSE
    /\ restarts = 0
    /\ warn_log = <<>>
    /\ tick_end = data
    /\ tick_end2 = data
    /\ nlog = <<>>
    /\ nic = AllUp
    /\ base = AllUp.ctr

LTick ==
    /\ \E m \in {now_month, NextMonth(now_month)}, s \in Samples :
          Pass(MaxLoadTicks, m, s)
    /\ nic' = nic
    /\ base' = base

LNext ==
    \/ Startup
    \/ LTick
    \/ AlertCheck
    \/ SaveOpen
    \/ SaveWrite
    \/ ExceededNotify
    \/ Shutdown

LSpec == LInit /\ [][LNext]_vars

\* ---------------------------------------------------- shared vocabulary
LastMonth == hist[Len(hist)][1]
LastSample == hist[Len(hist)][2]

\* the process is inside a tick or has just ended one
TickActive == pc # "loop" \/ events # <<>>
\* the process has ended a tick (and sleeps, or has left the loop)
AtTickEnd == pc \in {"loop", "done"} /\ events # <<>>
\* the month read by the current tick is the month of the record it began with
SameMonthTick == pre.month = LastMonth

Has(e) == \E i \in 1..Len(events) : events[i].e = e
Count(e) == Cardinality({i \in 1..Len(events) : events[i].e = e})
Persisted == load_data(file, now_month)

Pos(x) == IF x > 0 THEN x ELSE 0

\* first index of the run of samples, ending with the last one, that were
\* all taken in the month of the last one
MonthStart(h) ==
    CHOOSE i \in 1..Len(h) :
        /\ \A j \in i..Len(h) : h[j][1] = h[Len(h)][1]
        /\ (i > 1 => h[i - 1][1] # h[Len(h)][1])

RECURSIVE DeltaSum(_, _, _)
\* sum of the strictly positive differences h[j] - h[j-1] for j in lo+1..hi
DeltaSum(h, lo, hi) ==
    IF hi <= lo THEN 0
    ELSE DeltaSum(h, lo, hi - 1) + Pos(h[hi][2] - h[hi - 1][2])

PositiveDeltaSum(h) == DeltaSum(h, MonthStart(h), Len(h))

\* ----------------------------------------------------------------- C1
\* C1: starting from a fresh record, at the end of every tick used_bytes is
\* the sum of the strictly positive differences between consecutive samples
\* taken in the current month; the first sample and the first sample of a
\* new month are baselines and add nothing (no process was killed mid-tick).
C1_UsedIsPositiveDeltaSum ==
    (AtTickEnd /\ ~dirty) => data.used_bytes = PositiveDeltaSum(hist)

\* a tick end after a drop and a rise of the counter inside one month
C1_Witness ==
    /\ AtTickEnd /\ ~dirty /\ restarts = 0
    /\ Len(hist) >= 3
    /\ MonthStart(hist) <= Len(hist) - 2
    /\ hist[Len(hist) - 1][2] < hist[Len(hist) - 2][2]
    /\ hist[Len(hist)][2] > hist[Len(hist) - 1][2]
    /\ data.used_bytes = hist[Len(hist)][2] - hist[Len(hist) - 1][2]

\* ----------------------------------------------------------------- C2
\* C2: a process stopped between two ticks and started again from the
\* state file has, at the end of every later tick, the used_bytes,
\* last_total_bytes and alert_sent of a run that was never stopped and took
\* the same samples.
C2_RestartSafe ==
    (AtTickEnd /\ ~dirty /\ ref_ticks = Len(hist)) =>
        /\ data.used_bytes = ref.used_bytes
        /\ data.last_total_bytes = ref.last_total_bytes
        /\ data.alert_sent = ref.alert_sent

\* a tick that adds usage after a restart that loaded a record with usage
C2_Witness ==
    /\ AtTickEnd /\ ~dirty /\ ref_ticks = Len(hist)
    /\ restarts > 0
    /\ loaded.used_bytes > 0
    /\ loaded.alert_sent
    /\ pre = loaded
    /\ data.used_bytes > loaded.used_bytes

\* ----------------------------------------------------------------- C3
\* C3: a tick that reads a month other than the record's month leaves
\* used_bytes = 0, alert_sent = FALSE, month = the month read and
\* last_total_bytes = the sample, whatever the record was; it dispatches
\* nothing, never reaches the alert evaluation, and ends with the record
\* persisted.
C3_RolloverResets ==
    (TickActive /\ ~SameMonthTick) =>
        /\ data.month = LastMonth
        /\ data.used_bytes = 0
        /\ data.alert_sent = FALSE
        /\ data.last_total_bytes = Some(LastSample)
        /\ pc \in {"roll_save", "loop"}
        /\ pc = "roll_save" => events = <<>>
        /\ pc = "loop" => (Len(events) = 1 /\ Has("persist") /\ Persisted = data)

\* the end of a rollover tick that began with usage and a sent warning
C3_Witness ==
    /\ AtTickEnd /\ ~SameMonthTick
    /\ pre.used_bytes > 0
    /\ pre.alert_sent
    /\ pre.last_total_bytes # None
    /\ pre.last_total_bytes[1] < LastSample

\* ----------------------------------------------------------------- C4
\* C4: used_bytes is always a natural number, and a step that lowers it is
\* the month-rollover step of a tick, which sets it to 0.  (The start of a
\* process after a kill in the middle of a tick is the subject of C10 and
\* is not a step of the loop.)
C4_UsedMonotone ==
    /\ data.used_bytes \in Nat
    /\ [][ \/ (restarts' # restarts /\ dirty')
           \/ /\ data'.used_bytes \in Nat
              /\ data'.used_bytes < data.used_bytes =>
                    /\ pc = "loop" /\ pc' = "roll_save"
                    /\ data.month # now_month'
                    /\ data'.used_bytes = 0 ]_vars

\* a tick of the same month whose sample is below the previous one, ended
\* with the usage it began with
C4_Witness ==
    /\ AtTickEnd /\ SameMonthTick
    /\ pre.last_total_bytes # None
    /\ LastSample < pre.last_total_bytes[1]
    /\ pre.used_bytes > 0
    /\ data.used_bytes = pre.used_bytes

\* ----------------------------------------------------------------- C5
NoDuplicates(q) == \A i, j \in 1..Len(q) : q[i] = q[j] => i = j

\* floor(cap_bytes * alarm_ratio), from the capacity in bytes
WarnThreshold == (bandwidth_max_bytes * alarm_percent) \div 100

\* C5: within one process no month sees two Warn dispatches; a tick that
\* evaluates the alerts dispatches Warn exactly when used_bytes has reached
\* floor(cap_bytes * alarm_ratio) and alert_sent was false, and after the
\* dispatch alert_sent is true whatever the channels reported.
C5_WarnOncePerMonth ==
    /\ NoDuplicates(warn_log)
    /\ (TickActive /\ SameMonthTick /\ pc # "alert") =>
          /\ Has("warn") <=> (data.used_bytes >= WarnThreshold /\ ~pre.alert_sent)
          /\ Has("warn") => (Count("warn") = 1 /\ data.alert_sent)

\* a tick ended after a Warn dispatch on which no channel succeeded, in a
\* process that had already ended a tick
C5_Witness ==
    /\ pc = "loop" /\ events # <<>>
    /\ \E i \in 1..Len(events) : events[i].e = "warn" /\ ~events[i].ok
    /\ notify_enabled # {}
    /\ data.alert_sent
    /\ pre.last_total_bytes # None

\* ----------------------------------------------------------------- C6
\* C6: a tick that evaluates the alerts with used_bytes >= cap_bytes takes
\* the exceeded path whatever alert_sent is and whether or not an earlier
\* process already took it: it never goes to the normal save, and it ends
\* with the record persisted, the exceeded notification dispatched and,
\* when shutdown is enabled, the shutdown invoked.
C6_ExceededEveryTick ==
    (TickActive /\ SameMonthTick /\ data.used_bytes >= bandwidth_max_bytes) =>
        /\ pc \in {"alert", "exc_save", "exc_notify", "exc_shutdown", "done"}
        /\ pc = "done" =>
              /\ Has("persist") /\ Persisted = data
              /\ Has("exceeded")
              /\ shutdown_enabled => Has("shutdown")

\* the first tick of a process that loaded a record of the same month whose
\* usage was already over the cap and whose warning was already sent
C6_Witness ==
    /\ pc = "done" /\ restarts > 0
    /\ pre = loaded
    /\ loaded.used_bytes >= bandwidth_max_bytes
    /\ loaded.alert_sent
    /\ SameMonthTick
    /\ Has("persist") /\ Has("exceeded") /\ Has("shutdown")

\* ----------------------------------------------------------------- C7
\* C7: a tick dispatches at most one of Warn and ExceededStop; when
\* used_bytes >= cap_bytes only the exceeded notification is dispatched.
C7_OneActionPerTick ==
    Has("exceeded") => ~\E i \in 1..Len(events) :
                            events[i].e = "warn" /\ events[i].calls # {}

\* ----------------------------------------------------------------- C8
Index(e) == CHOOSE i \in 1..Len(events) : events[i].e = e

\* C8: in the exceeded tick the record, with this tick's delta and sample,
\* is on disk before the exceeded notification is dispatched, and the
\* shutdown comes after that notification and only when it is enabled.
C8_PersistNotifyShutdown ==
    /\ Has("exceeded") =>
          /\ Has("persist") /\ Index("persist") < Index("exceeded")
          /\ Persisted = data
          /\ Persisted.last_total_bytes = Some(LastSample)
          /\ Persisted.used_bytes = pre.used_bytes
                + (IF pre.last_total_bytes = None THEN 0
                   ELSE Pos(LastSample - pre.last_total_bytes[1]))
    /\ Has("shutdown") =>
          /\ shutdown_enabled
          /\ Has("exceeded") /\ Index("exceeded") < Index("shutdown")
    /\ (pc = "done" /\ shutdown_enabled) => Has("shutdown")

\* the loop left after persist, notification and shutdown, in a tick that
\* added usage
C8_Witness ==
    /\ pc = "done"
    /\ Has("persist") /\ Has("exceeded") /\ Has("shutdown")
    /\ data.used_bytes > pre.used_bytes
    /\ \E i \in 1..Len(events) : events[i].e = "exceeded" /\ events[i].calls # {}

\* ----------------------------------------------------------------- C9
\* C9: once the exceeded notification has been dispatched, the process takes
\* no further sample, changes neither the record nor the file, and dispatches
\* nothing more: its only steps are the shutdown call and its own end.
C9_ExceededTerminal ==
    [][ Has("exceeded") =>
           /\ hist' = hist
           /\ data' = data
           /\ file' = file
           /\ \/ /\ pc = "exc_shutdown" /\ pc' = "done"
                 /\ cooldown_tracker' = cooldown_tracker
                 /\ Len(events') = Len(events) + 1
                 /\ events'[Len(events')].e = "shutdown"
              \/ restarts' = restarts + 1 /\ events' = <<>> ]_vars

\* the loop left although the shutdown call failed
C9_Witness ==
    /\ pc = "done"
    /\ Has("exceeded")
    /\ \E i \in 1..Len(events) : events[i].e = "shutdown" /\ ~events[i].ok

\* ---------------------------------------------------------------- C10
\* C10: every tick that goes back to the loop ends with the record on disk,
\* and the record a restarted process loads is the record as it stood at
\* the end of the last or the second-to-last tick.
C10_KillLosesOneTick ==
    /\ (pc = "loop" /\ events # <<>>) =>
          (events[Len(events)].e = "persist" /\ Persisted = data)
    /\ (pc = "loop" /\ events = <<>> /\ restarts > 0
          /\ tick_end.used_bytes > 0) =>
          data \in {tick_end, tick_end2}

\* -------------------------------------------------- notifier vocabulary
\* the send_alert calls in which send_<ch> was entered
Attempts(ch) == {i \in 1..Len(nlog) : ch \in nlog[i].tried}

\* the time of the last successful send on ch before call j, 0 when none
RECURSIVE LastOk(_, _)
LastOk(ch, j) ==
    IF j = 1 THEN 0
    ELSE IF ch \in nlog[j - 1].oks THEN nlog[j - 1].t
    ELSE LastOk(ch, j - 1)

\* ---------------------------------------------------------------- C11
\* C11 as stated: of two dispatch attempts on a channel less than Cooldown
\* apart, the first of which called the transport, only the first calls the
\* transport, whatever its outcome.
C11_OneCallWhateverOutcome ==
    \A ch \in Channels : \A i, j \in Attempts(ch) :
        (i < j /\ nlog[j].t - nlog[i].t < Cooldown /\ ch \in nlog[i].calls)
            => ch \notin nlog[j].calls

\* C11, amended: of two dispatch attempts on a channel less than Cooldown
\* apart, the second does not call the transport when the first one sent
\* successfully; after a first attempt whose transport call failed, the
\* next attempt calls the transport again; and an attempt at least Cooldown
\* after the channel's last successful send calls the transport.
C11_CooldownAfterSuccess ==
    \A ch \in Channels : \A i, j \in Attempts(ch) :
        /\ (i < j /\ nlog[j].t - nlog[i].t < Cooldown /\ ch \in nlog[i].oks)
              => ch \notin nlog[j].calls
        /\ (i < j /\ ch \in nlog[i].calls \ nlog[i].oks
              /\ \A k \in Attempts(ch) : ~(i < k /\ k < j))
              => ch \in nlog[j].calls
        /\ (nlog[j].t - LastOk(ch, j) >= Cooldown) => ch \in nlog[j].calls

\* a success, an attempt inside the cooldown, and an attempt after it; and
\* a failure followed at once by a second transport call
C11_Witness ==
    \E ch \in Channels : \E i, j, k \in Attempts(ch) :
        /\ i < j /\ j < k
        /\ ch \in nlog[i].oks
        /\ nlog[j].t - nlog[i].t < Cooldown /\ ch \notin nlog[j].calls
        /\ nlog[k].t - nlog[i].t >= Cooldown /\ ch \in nlog[k].calls
        /\ ch \notin nlog[k].oks

\* ---------------------------------------------------------------- C12
\* C12: every send_alert call that returns hands its caller a boolean, true
\* iff at least one channel reported success in that call.
C12_ReturnsAnySuccess ==
    \A i \in 1..Len(nlog) :
        nlog[i].ret \notin {"blocked", "raised"}
            => nlog[i].ret = (IF nlog[i].oks # {} THEN "True" ELSE "False")

\* ---------------------------------------------------------------- C13
Rank(ch) == CHOOSE i \in 1..Len(ChannelOrder) : ChannelOrder[i] = ch

\* the channels send_alert visits before ch
Earlier(ch) == {c \in Channels : Rank(c) < Rank(ch)}

\* C13: in one send_alert call whose earlier transport calls all came back,
\* with success or with a failure, every enabled channel is evaluated and
\* every enabled channel that is not cooling down has its transport called;
\* a channel whose transport failed is the only one recorded as failed: a
\* called channel whose transport succeeded is recorded as a success.
C13_FailureDoesNotAbort ==
    \A i \in 1..Len(nlog) : \A ch \in notify_enabled :
        (\A c \in Earlier(ch) \cap nlog[i].calls :
              nlog[i].out[c] \in {"ok", "fail"})
            => /\ ch \in nlog[i].tried
               /\ nlog[i].t - nlog[i].before[ch] >= Cooldown
                     => ch \in nlog[i].calls
               /\ ch \in nlog[i].calls
                     => (ch \in nlog[i].oks <=> nlog[i].out[ch] = "ok")
               /\ nlog[i].ret # "raised"

\* a call in which the first channel's transport failed and a later one
\* was called and succeeded
C13_Witness ==
    \E i \in 1..Len(nlog) : \E a, b \in notify_enabled :
        /\ Rank(a) < Rank(b)
        /\ a \in nlog[i].calls /\ nlog[i].out[a] = "fail"
        /\ b \in nlog[i].calls /\ b \in nlog[i].oks

\* ---------------------------------------------------------------- C14
\* C14: a send_alert call sets last_sent_at of exactly the channels that
\* sent successfully, to the current time, and leaves every other channel's
\* last_sent_at as it was; nothing between two calls changes it, so each
\* channel's last_sent_at is the time of its own last successful send.
C14_CooldownPerChannel ==
    /\ \A i \in 1..Len(nlog) : \A ch \in Channels :
          /\ nlog[i].after[ch] =
                (IF ch \in nlog[i].oks THEN nlog[i].t ELSE nlog[i].before[ch])
          /\ nlog[i].before[ch] = LastOk(ch, i)
    /\ \A ch \in Channels : cooldown_tracker[ch] = LastOk(ch, Len(nlog) + 1)

\* one call in which a channel sent successfully while another channel,
\* which had sent before, was tried and did not send
C14_Witness ==
    \E i \in 1..Len(nlog) : \E a, b \in notify_enabled :
        /\ a # b
        /\ a \in nlog[i].oks /\ nlog[i].after[a] = nlog[i].t
        /\ b \in nlog[i].tried \ nlog[i].oks
        /\ nlog[i].before[b] > 0 /\ nlog[i].after[b] = nlog[i].before[b]
        /\ nlog[i].before[b] # nlog[i].t

\* ---------------------------------------------------------------- C15
\* a Warn dispatch of the current tick in which a transport was called and
\* no channel succeeded
WarnFailed ==
    \E i \in 1..Len(events) :
        events[i].e = "warn" /\ events[i].calls # {} /\ ~events[i].ok

\* C15: a dispatch in which every channel fails never stops the loop: no
\* error leaves send_alert, the tick of a failed Warn dispatch ends with
\* alert_sent set and the record persisted, the process then waits for its
\* next tick unless the cap was exceeded, and the loop is left only through
\* the exceeded branch.
C15_NotifyFailureNotFatal ==
    /\ pc # "crashed"
    /\ (AtTickEnd /\ WarnFailed)
          => /\ data.alert_sent
             /\ events[Len(events)].e \in {"persist", "exceeded", "shutdown"}
             /\ Persisted = data
             /\ (pc = "loop" \/ ExceedCond(data))
    /\ pc = "done" => ExceedCond(data)

\* a tick whose Warn dispatch failed on every channel has ended, and the
\* process waits for the next tick
C15_Witness ==
    /\ AtTickEnd /\ WarnFailed
    /\ pc = "loop"
    /\ Len(hist) < MaxTicks
    /\ data.alert_sent /\ Persisted = data

\* ---------------------------------------------------------------- C16
\* C16: in a step of the loop, alert_sent goes from true to false only in
\* the accounting of a tick that reads a month other than the record's,
\* and from false to true only in the warning step, with used_bytes at or
\* above the warning threshold.
C16_AlertSentFlag ==
    [][restarts' = restarts =>
          /\ (data.alert_sent /\ ~data'.alert_sent)
                => (pc = "loop" /\ IsRollover(data, now_month'))
          /\ (~data.alert_sent /\ data'.alert_sent)
                => (pc = "alert" /\ data'.used_bytes >= alarm_bytes
                    /\ data'.month = data.month)]_vars

\* the flag was set by a warning of this process and a rollover tick has
\* just cleared it
C16_Witness ==
    /\ pc = "roll_save"
    /\ warn_log # <<>>
    /\ pre.alert_sent /\ ~data.alert_sent

\* ---------------------------------------------------------------- C17
\* the state file holds a complete record: an object with the four keys
CompleteFile(f) == f.st = "json" /\ Keys \subseteq DOMAIN json_load(f)

\* C17: whatever state file the start finds, no pass of the loop ends the
\* process with an error, and from a file that does not hold a complete
\* record the first pass accounts as it does from the fresh zero record.
C17_LoadNeverFatal ==
    /\ pc # "crashed"
    /\ (Len(hist) = 1 /\ pc \in {"alert", "roll_save"} /\ ~CompleteFile(file))
          => data = Account(FreshRecord(12), LastSample, LastMonth)

\* ---------------------------------------------------------------- C18
\* a configured interface is absent from what the OS reports
InterfaceAbsent == \E i \in Interfaces : i \notin nic.up

\* C18: a failed read of the OS statistics, or a sample from which a
\* configured interface is missing, never ends the process, and the pass
\* that took such a sample leaves used_bytes as it was.
C18_BadSampleIsZeroDelta ==
    /\ pc # "crashed"
    /\ (pc = "alert" /\ InterfaceAbsent)
          => data.used_bytes = pre.used_bytes

\* ---------------------------------------------------------------- C19
\* C19: every send_alert call returns, whichever transports stay silent.
C19_DispatchReturns ==
    \A i \in 1..Len(nlog) : nlog[i].ret # "blocked"

\* ---------------------------------------------------------------- C20
\* what a start that fails must leave alone: the state file, the record,
\* the samples, the notifier and everything a pass or a dispatch writes
Untouched ==
    UNCHANGED <<data, file, fopen, loaded, hist, events, cooldown_tracker,
                warn_log, nlog, clock>>

\* C20: a start that finds a configured interface missing ends the process
\* at once, before load_data, with no sample taken, nothing read from or
\* written to the state file, no notification and no shutdown; the process
\* then takes no further step; and the process ends this way only from the
\* start, never from a pass of the loop.
C20_FailFastAtStartup ==
    [][/\ (pc = "boot" /\ InterfaceAbsent) => (pc' = "exit" /\ Untouched)
       /\ pc # "exit"
       /\ pc' = "exit" => (pc = "boot" /\ InterfaceAbsent)]_vars

\* the process has ended at its start, over a state file a previous run
\* left, without reading it
C20_Witness ==
    /\ pc = "exit"
    /\ InterfaceAbsent
    /\ file = json_dump(OldRecord)
    /\ data = Unbound /\ hist = <<>> /\ events = <<>>

\* ---------------------------------------------------------------- C21
\* the state file is of the older format
LegacyFile(f) ==
    f.st = "json" /\ "used_gb" \in DOMAIN f.obj /\ "used_bytes" \notin DOMAIN f.obj

\* round(a / b) for a >= 0 and b > 0, a tie going to the even neighbour
Round(a, b) ==
    LET q == a \div b
        r == a % b
    IN  IF 2 * r < b THEN q
        ELSE IF 2 * r > b THEN q + 1
        ELSE IF q % 2 = 0 THEN q ELSE q + 1

\* C21: the record load_data gives for a file of the older format has
\* used_bytes = round(used_gb * 1024^3) and no used_gb key.
C21_LegacyRounds ==
    (pc = "loop" /\ hist = <<>> /\ LegacyFile(file))
        => /\ "used_gb" \notin DOMAIN data
           /\ "used_bytes" \in DOMAIN data
           /\ data.used_bytes = Round(file.obj["used_gb"].v * GiB, FracDen)

\* ---------------------------------------------------------------- C22
\* C22: the exceeded dispatch calls the transport of every enabled channel,
\* so of each one that works, whatever was sent on the channel before.
C22_ExceededIsSent ==
    \A i \in 1..Len(events) :
        events[i].e = "exceeded" => events[i].calls = notify_enabled

\* ---------------------------------------------------------------- C23
\* this process took the baseline sample of the record's month
BaselineTaken ==
    /\ pc \notin {"boot", "exit"}
    /\ Len(hist) >= 1
    /\ (loaded.last_total_bytes = None \/ data.month # loaded.month)

\* the bytes that went over the monitored interfaces since that sample
Transferred ==
    SumOver([i \in Interfaces |-> nic.ctr[i] - base[i]], Interfaces)

\* C23: with counters that only grow, used_bytes never exceeds the bytes
\* transferred on the monitored interfaces since the month's baseline
\* sample, also when an interface is missing from some samples.
C23_NeverOvercounts ==
    BaselineTaken => data.used_bytes <= Transferred

\* ---------------------------------------------------------------- C24
\* a file of the older format without some of the other keys, and, where
\* it names a month, the month the first pass reads
PartialLegacyFile(f) ==
    /\ LegacyFile(f)
    /\ ~((Keys \ {"used_bytes"}) \subseteq DOMAIN f.obj)
    /\ "month" \in DOMAIN f.obj => f.obj["month"].v = LastMonth

\* C24: the first pass after the upgrade of a file of the older format that
\* lacks some of month, last_total_bytes and alert_sent, made in the month
\* of the start (LInit: 12), does not end the process and leaves used_bytes
\* no smaller than the upgrade made it.
C24_LegacyUsageSurvives ==
    (Len(hist) = 1 /\ pc \in {"alert", "roll_save", "crashed"} /\ ~fopen
        /\ LastMonth = 12 /\ PartialLegacyFile(file))
        => /\ pc # "crashed"
           /\ data.used_bytes >= loaded.used_bytes

=============================================================================
